---- MODULE Spec2Model ----
(***************************************************************************)
(* ankabot: one invocation of the page-fetch probe (src/src/main.rs).      *)
(*                                                                         *)
(* main() tries a plain HTTP fetch, short-circuits when the body looks     *)
(* renderable, and otherwise drives one browser session                    *)
(* (render_with_chrome), possibly retried once in headful mode.  The       *)
(* session navigates, waits for readiness (wait_until_ready), optionally   *)
(* waits for a selector, captures artifacts, and on a timeout-like error   *)
(* builds a TimeoutReport that main() routes through --on-timeout.         *)
(*                                                                         *)
(* Time is the monotonic clock read by Instant::now(), in milliseconds.    *)
(* An Instant is opaque: the program only ever compares the clock with     *)
(* instants derived from the `start` of the running session, so the clock  *)
(* is measured from that start (start = 0) and is not kept between         *)
(* sessions.  Two reads that follow each other with no library call or     *)
(* sleep between them are taken at the same instant.  Every value the      *)
(* program obtains from the network, the browser or the file system is an  *)
(* input drawn from a small set; every `?` of the source is a possible     *)
(* failure.  Option<T> is a set with at most one element.  The fields      *)
(* input_url, final_url, redirected, elapsed_ms and run_dir of the records *)
(* are passed through unread and are left out.                             *)
(***************************************************************************)
EXTENDS Integers, Sequences, FiniteSets, TLC

(* ------------------------------ bounds --------------------------------- *)
\* longest response body, in chunks
MaxChunks == 3
\* the long deadline budget is MaxWaitPolls poll intervals
MaxWaitPolls == 4
\* largest pending-request count / resource count a probe reports
MaxPending == 2
MaxCnt == 1
\* longest time one browser call (an evaluate, a find_element, a navigation)
\* takes, in poll intervals; a call takes either no time or this long
EvalPolls == 1
\* times the instrumentation script runs in one document
MaxInstalls == 2
\* fetch requests in flight at once, and loadend listeners on the XHR object
MaxFetches == 2
MaxListeners == 2
\* largest magnitude of window.__ankabot.pending that is followed
MaxCount == 2
\* cookies in the profile
MaxCookies == 2

(* ------------------------- program constants --------------------------- *)
MinBodyLen == 512
PollMs == 200
SelectorPollMs == 150
ImgPollMs == 200
HeurWindowMs == 600
SettleMs == 800
TimeoutExit == 2
UnknownStatus == 200
DefaultMinChars == 1500

None == {}
Some(x) == {x}
Unwrap(o) == CHOOSE x \in o : TRUE
Min(a, b) == IF a <= b THEN a ELSE b

(* ------------------------- response bodies ----------------------------- *)
\* A body is a sequence of chunks: the markers the classifier looks for, in
\* both letter cases, a whitespace character, and a run of filler text.
Filler == "xxxx"
Chunks == {"<body", "<BODY", "<a ", "<A ", " ", Filler}

ChunkLen(c) ==
    CASE c \in {"<body", "<BODY"} -> 5
      [] c \in {"<a ", "<A "} -> 3
      [] c = " " -> 1
      [] OTHER -> MinBodyLen - 8

RECURSIVE ByteLen(_)
ByteLen(s) == IF s = <<>> THEN 0 ELSE ChunkLen(Head(s)) + ByteLen(Tail(s))

\* str::to_lowercase, chunk by chunk
ToLower(c) ==
    CASE c = "<BODY" -> "<body"
      [] c = "<A " -> "<a "
      [] OTHER -> c

\* str::trim().is_empty(): nothing but whitespace
TrimIsEmpty(s) == \A i \in 1..Len(s) : s[i] = " "

\* str::contains on the lowercased text
LowerContains(s, pat) == \E i \in 1..Len(s) : ToLower(s[i]) = pat

\* str::matches(pat).count(): case-sensitive, non-overlapping
RECURSIVE MatchCount(_, _)
MatchCount(s, pat) ==
    IF s = <<>> THEN 0
    ELSE (IF Head(s) = pat THEN 1 ELSE 0) + MatchCount(Tail(s), pat)

RECURSIVE SeqsUpTo(_, _)
SeqsUpTo(S, n) ==
    IF n = 0 THEN {<<>>}
    ELSE LET shorter == SeqsUpTo(S, n - 1)
         IN  shorter \cup {Append(s, c) : s \in {t \in shorter : Len(t) = n - 1}, c \in S}

Bodies == SeqsUpTo(Chunks, MaxChunks)

Statuses == {200, 404}

(* ---------------------------- error messages --------------------------- *)
\* An error message is the sequence of its words; e.to_string().contains(w)
\* looks for a word in it.
MsgReadyTimeout == <<"wait_until_ready", "timeout">>
MsgSelectorTimeout == <<"selector", "not", "found", "before", "timeout">>
MsgImagesTimeout == <<"images/fonts", "timeout">>
\* errors of the browser library and of the file system
MsgLibTimeout == <<"EventNeverCame">>
MsgLibOther == <<"protocol", "error">>
MsgIo == <<"io", "error">>
LibErrors == {MsgLibTimeout, MsgLibOther}

\* str::contains: pat occurs in msg as a run of consecutive words
MsgContains(msg, pat) ==
    \E i \in 0..(Len(msg) - Len(pat)) : SubSeq(msg, i + 1, i + Len(pat)) = pat

Ok(v) == [ok |-> TRUE, val |-> v]
Err(m) == [ok |-> FALSE, msg |-> m]

\* main returns Ok(()), or calls process::exit(code)
Exit(code) == [code |-> code, error |-> None]
\* main returns Err(msg): the runtime prints it and exits with status 1
Fatal(msg) == [code |-> 1, error |-> Some(msg)]

(* ------------------------------- state --------------------------------- *)
VARIABLES
    args,        \* Cli, as far as the program has read it
    pc,          \* position of the single flow of control
    now,         \* the clock, ms since `start` of the running session
    html,        \* Option: the body fetch_http read
    http_res,    \* Option<Result<HttpRes>>
    cli,         \* Option: which Cli the running render_with_chrome borrows
    retry,       \* Option<Cli>: main's modified copy, as far as read
    calls,       \* the headful flag of every render_with_chrome call so far
    launched,    \* number of browsers Browser::new has started
    alive,       \* calls (by index) whose browser is not dropped yet
    deadline,    \* Option<Instant>
    eng,         \* locals of wait_until_ready and of the closure around it
    res,         \* Option: the closure's Result<ChromeRes>
    chrome_res,  \* Option: what render_with_chrome returned
    out,         \* the records write_json has written, in order
    exit,        \* Option: how the process ended, [code, error]
    files,       \* files written so far
    doc,         \* the document in the tab: window.__ankabot, fetch, XHR
    jar          \* the cookies of the browser profile, and their export

vars == <<args, pc, now, html, http_res, cli, retry, calls, launched, alive,
          deadline, eng, res, chrome_res, out, exit, files, doc, jar>>

\* what lives in the browser; the invocation sees it only through the
\* values its probes return, which are inputs there
page == <<doc, jar>>

(* ------------------------------ the flags ------------------------------ *)
\* Cli::parse() yields an immutable value, so a flag has no effect before
\* the program first reads it.  The command line is an input: each flag is
\* drawn where main or render_with_chrome first reads it and is fixed from
\* then on.  A Cli is the record of its flags, each None until it is read.
OnTimeoutValues == {"continue", "report", "fail"}
WaitReadyValues == {"complete", "interactive", "none", "NONE"}
MaxWaitValues == {1, MaxWaitPolls * PollMs}
IdleMsValues == {2 * PollMs}
ThresholdValues == {MaxPending - 1}
MinCharsValues == {DefaultMinChars}
SelectorValues == {None, Some("#app")}
ExportValues == {None, Some("cookies.json")}

IgnoreValues == {None, Some(<<"ads">>)}

Flags == {"force_chrome", "headful", "headful_fallback", "on_timeout",
          "wait_ready", "wait_selector", "export_cookies", "max_wait_ms",
          "network_idle_ms", "idle_threshold", "heuristic_min_chars",
          "idle_ignore"}

Unread == [f \in Flags |-> None]

\* flag f of c: read, with value v
Has(c, f, v) == c[f] = Some(v)
\* c once the flags of record r are read, with the values r gives
Learn(c, r) == [f \in Flags |-> IF f \in DOMAIN r THEN Some(r[f]) ELSE c[f]]
\* the values r gives do not contradict what was read of c
Agrees(c, r) == \A f \in DOMAIN r : c[f] = None \/ c[f] = Some(r[f])

\* main reads the flags of r from args
MainReads(r) ==
    /\ Agrees(args, r)
    /\ args' = Learn(args, r)

\* the Cli the running call borrows
Borrowed == IF cli = Some("retry") THEN Unwrap(retry) ELSE args
Flag(f) == Unwrap(Borrowed[f])

\* render_with_chrome reads the flags of r from the Cli it borrows; a flag
\* the copy inherited unread from args has the same value in both
SessionReads(r) ==
    /\ Agrees(Borrowed, r)
    /\ IF cli = Some("retry")
       THEN /\ retry' = Some(Learn(Unwrap(retry), r))
            /\ args' = [f \in Flags |->
                          IF f \in DOMAIN r /\ args[f] = None THEN Some(r[f]) ELSE args[f]]
       ELSE /\ args' = Learn(args, r)
            /\ UNCHANGED retry

\* let mut last_cnt = -1; idle_since = None; heur_since = None
EngInit ==
    [last_cnt |-> 0 - 1, idle_since |-> None, heur_since |-> None,
     settle_deadline |-> None, result |-> None, wait_branch |-> None,
     body_text |-> None, challenge |-> FALSE]

\* a document no script has run in: window.__ankabot is undefined, fetch
\* and XMLHttpRequest are the native ones, nothing is in flight
NewDocument ==
    [ankabot |-> None,
     IGNORE |-> <<>>,
     layers |-> 0,
     installs |-> 0,
     fetches |-> <<>>,
     xhr |-> [state |-> "unsent", url |-> <<>>, listeners |-> 0]]

\* a profile without cookies: nothing to export, no second session
NoJar == [first |-> {}, exported |-> None, second |-> None]

\* main has not started
Idle ==
    /\ args = Unread
    /\ pc = "main"
    /\ now = 0
    /\ html = None
    /\ http_res = None
    /\ cli = None
    /\ retry = None
    /\ calls = <<>>
    /\ launched = 0
    /\ alive = {}
    /\ deadline = None
    /\ eng = EngInit
    /\ res = None
    /\ chrome_res = None
    /\ out = <<>>
    /\ exit = None
    /\ files = {}

Init ==
    /\ Idle
    /\ doc = NewDocument
    /\ jar = NoJar

\* the variables of main and of its calls
invocation == <<pc, now, html, http_res, cli, calls, launched, alive, deadline,
                eng, res, chrome_res, out, exit, files>>

\* the variables of one browser session
session == <<now, cli, calls, launched, alive, deadline, eng, res, chrome_res>>

\* main calls render_with_chrome(&args.url, &run_paths, which)
CallRender(which) ==
    /\ pc' = "r_launch"
    /\ cli' = Some(which)
    /\ now' = 0
    /\ deadline' = None
    /\ eng' = EngInit
    /\ res' = None
    /\ chrome_res' = None
    /\ UNCHANGED <<calls, launched, alive>>

(* ------------------------------ fetch_http ----------------------------- *)
LinksFound(h) == MatchCount(h, "<a ")

\* a faulty LooksEmpty, for C1: a body of exactly 512 bytes is too short
LooksEmptyAt512(h) ==
    TrimIsEmpty(h) \/ ByteLen(h) <= MinBodyLen \/ ~LowerContains(h, "<body")

LooksEmpty(h) ==
    TrimIsEmpty(h) \/ ByteLen(h) < MinBodyLen \/ ~LowerContains(h, "<body")

HttpRes(status, h) ==
    [status |-> status,
     links_found |-> LinksFound(h),
     looks_empty |-> LooksEmpty(h),
     waf_detected |-> FALSE,
     anti_bot_vendor |-> None]

\* main, lines 227-229: the run directory is created first
NewRunPaths ==
    /\ pc = "main"
    /\ \/ \E force_chrome \in BOOLEAN :
            /\ MainReads([force_chrome |-> force_chrome])
            /\ IF force_chrome
               THEN CallRender("args")
               ELSE /\ pc' = "fetch"
                    /\ UNCHANGED session
            /\ UNCHANGED exit
       \/ /\ pc' = "done"
          /\ exit' = Some(Fatal(MsgIo))
          /\ UNCHANGED <<args, session>>
    /\ UNCHANGED <<html, http_res, retry, out, files>>
    /\ UNCHANGED page

\* fetch_http: the GET, the body, the copy saved to http_raw.html, the
\* classification.  Any `?` makes it return Err.
FetchHttp ==
    /\ pc = "fetch"
    /\ \/ \* the client cannot be built, or send() fails
          /\ html' = None
          /\ http_res' = Some(Err(MsgLibOther))
          /\ UNCHANGED files
       \/ \E status \in Statuses, is_html \in BOOLEAN,
             body \in Bodies, text_ok \in BOOLEAN, write_ok \in BOOLEAN :
            LET h == IF is_html THEN body ELSE <<>>
            IN  IF is_html /\ ~text_ok
                THEN /\ html' = None
                     /\ http_res' = Some(Err(MsgLibOther))
                     /\ UNCHANGED files
                ELSE /\ html' = Some(h)
                     /\ IF write_ok
                        THEN /\ files' = files \cup {"http_raw"}
                             /\ http_res' = Some(Ok(HttpRes(status, h)))
                        ELSE /\ UNCHANGED files
                             /\ http_res' = Some(Err(MsgIo))
    /\ pc' = "fetched"
    /\ UNCHANGED <<args, retry, out, exit, session>>
    /\ UNCHANGED page

\* a faulty NeedsJs, for C27: an error status asks for the browser too
NeedsJsOnErrorStatus(r) == r.looks_empty \/ r.links_found = 0 \/ r.status >= 400

\* a faulty NeedsJs, for C2: both checks must fail
NeedsJsBoth(r) == r.looks_empty /\ r.links_found = 0

NeedsJs(r) == r.looks_empty \/ r.links_found = 0

ShortCircuitOutput(r) ==
    [kind |-> "ProbeResult",
     http_status |-> r.status,
     requires_javascript |-> FALSE,
     waf_detected |-> r.waf_detected,
     anti_bot_vendor |-> r.anti_bot_vendor,
     js_challenge_page |-> FALSE,
     screenshot_path |-> None,
     pdf_path |-> None,
     html_path |-> "http_raw",
     pages_crawled |-> 0,
     wait_branch |-> "ready_state"]

\* a faulty WriteJsonAndExit, for C3: a failed write goes unnoticed
WriteJsonIgnoringFailure(record, code) ==
    \/ /\ out' = Append(out, record)
       /\ files' = files \cup {"result_json"}
       /\ exit' = Some(Exit(code))
    \/ /\ UNCHANGED <<out, files>>
       /\ exit' = Some(Exit(code))

\* write_json(..)? followed by the way main ends: `code` on success, a hard
\* failure with nothing written when the write fails
WriteJsonAndExit(record, code) ==
    \/ /\ out' = Append(out, record)
       /\ files' = files \cup {"result_json"}
       /\ exit' = Some(Exit(code))
    \/ /\ UNCHANGED <<out, files>>
       /\ exit' = Some(Fatal(MsgIo))

\* main, lines 230-257: use the HTTP result or fall through to the browser
Decide ==
    /\ pc = "fetched"
    /\ LET r == Unwrap(http_res)
       IN  IF r.ok /\ ~NeedsJs(r.val)
           THEN /\ WriteJsonAndExit(ShortCircuitOutput(r.val), 0)
                /\ pc' = "done"
                /\ UNCHANGED <<html, http_res, session>>
           ELSE /\ CallRender("args")
                /\ html' = None
                /\ http_res' = None
                /\ UNCHANGED <<out, files, exit>>
    /\ UNCHANGED <<args, retry>>
    /\ UNCHANGED page

(* -------------------------- wait_until_ready --------------------------- *)
\* how long a browser call takes, ms
Latencies == {0, EvalPolls * PollMs}
ReadyStates == {"loading", "interactive", "complete"}
TextLens == {0, DefaultMinChars}

\* str::eq_ignore_ascii_case(wait_ready, "none")
IsNone(wait_ready) == wait_ready \in {"none", "None", "NONE"}

ReadyOk(wait_ready, ready_state) ==
    IF wait_ready = "interactive"
    THEN ready_state = "interactive" \/ ready_state = "complete"
    ELSE ready_state = "complete"

\* a faulty IdleSince, for C21: a changed resource count does not reset
IdleSinceIgnoringCount(e, pending, cnt, idle_threshold, t) ==
    IF pending <= idle_threshold
    THEN (IF e.idle_since = None THEN Some(t) ELSE e.idle_since)
    ELSE None

\* lines 542-552: idle_since after this tick's pending and resource counts
IdleSince(e, pending, cnt, idle_threshold, t) ==
    IF pending <= idle_threshold /\ cnt = e.last_cnt
    THEN (IF e.idle_since = None THEN Some(t) ELSE e.idle_since)
    ELSE None

\* lines 564-576: heur_since after this tick's text length and container
HeurSince(e, text_len, has_main, min_chars, t) ==
    IF text_len >= min_chars /\ has_main
    THEN (IF e.heur_since = None THEN Some(t) ELSE e.heur_since)
    ELSE None

Returned(r, t) == [kind |-> "return", eng |-> [EngInit EXCEPT !.result = Some(r)], at |-> t]

\* lines 564-576: the heuristic test on the readings text_len, has_main
HeuristicAt(e, c, dl, t, text_len, has_main) ==
    LET h == HeurSince(e, text_len, has_main, c.heuristic_min_chars, t)
    IN  IF h # None /\ t - Unwrap(h) >= HeurWindowMs
        THEN [kind |-> "settle",
              eng |-> [e EXCEPT !.heur_since = h,
                                !.settle_deadline = Some(Min(dl, t + SettleMs))],
              at |-> t]
        ELSE [kind |-> "sleep",
              eng |-> [e EXCEPT !.heur_since = h],
              at |-> t + PollMs]

\* lines 555-578: the heuristic probe, read at t
HeuristicStep(e, c, dl, t) ==
    {Returned(Err(m), t) : m \in LibErrors}
    \cup
    {HeuristicAt(e, c, dl, t, text_len, has_main)
       : text_len \in TextLens, has_main \in BOOLEAN}

\* lines 542-553: the network-idle test on the readings pending, cnt
NetworkIdleAt(e, c, dl, t, pending, cnt) ==
    LET i == IdleSince(e, pending, cnt, c.idle_threshold, t)
    IN  IF i # None /\ t - Unwrap(i) >= c.network_idle_ms
        THEN {Returned(Ok("network_idle"), t)}
        ELSE UNION {HeuristicStep([e EXCEPT !.idle_since = i, !.last_cnt = cnt],
                                  c, dl, t + d)
                      : d \in Latencies}

\* lines 532-553: the pending counter and the resource count, read at t
NetworkIdleStep(e, c, dl, t) ==
    {Returned(Err(m), t) : m \in LibErrors}
    \cup
    UNION {NetworkIdleAt(e, c, dl, t, pending, cnt)
             : pending \in 0..MaxPending, cnt \in 0..MaxCnt}

\* a faulty ReadyStateAt, for C20: network idleness is looked at first
ReadyStateAfterIdle(e, c, dl, t, rs) ==
    LET i == IdleSince(e, 0, e.last_cnt, c.idle_threshold, t)
    IN  IF i # None /\ t - Unwrap(i) >= c.network_idle_ms
        THEN {Returned(Ok("network_idle"), t)}
        ELSE IF ReadyOk(c.wait_ready, rs)
             THEN {Returned(Ok("ready_state"), t)}
             ELSE UNION {NetworkIdleStep(e, c, dl, t + d) : d \in Latencies}

\* lines 523-530: the ready-state test on the reading rs
ReadyStateAt(e, c, dl, t, rs) ==
    IF ReadyOk(c.wait_ready, rs)
    THEN {Returned(Ok("ready_state"), t)}
    ELSE UNION {NetworkIdleStep(e, c, dl, t + d) : d \in Latencies}

\* lines 519-530: document.readyState, read at t
ReadyStateStep(e, c, dl, t) ==
    {Returned(Err(m), t) : m \in LibErrors}
    \cup
    UNION {ReadyStateAt(e, c, dl, t, rs) : rs \in ReadyStates}

\* a faulty PollTick, for C8: the deadline itself is still in time
PollTickLate(e, c, dl, t) ==
    IF t > dl
    THEN {Returned(Err(MsgReadyTimeout), t)}
    ELSE UNION {ReadyStateStep(e, c, dl, t + d) : d \in Latencies}

\* lines 514-579: one pass of the loop, started at t
PollTick(e, c, dl, t) ==
    IF t >= dl
    THEN {Returned(Err(MsgReadyTimeout), t)}
    ELSE UNION {ReadyStateStep(e, c, dl, t + d) : d \in Latencies}

\* lines 592-618: one pass of wait_images_and_fonts, started at t
ImagesFontsTick(dl, t) ==
    IF t >= dl
    THEN {[kind |-> "err", msg |-> MsgImagesTimeout, at |-> t]}
    ELSE UNION {
           {[kind |-> "err", msg |-> m, at |-> t + d] : m \in LibErrors}
           \cup
           {IF imgs_unloaded = 0 /\ fonts_ready
            THEN [kind |-> "ok", msg |-> <<>>, at |-> t + d]
            ELSE [kind |-> "sleep", msg |-> <<>>, at |-> t + d + ImgPollMs]
              : imgs_unloaded \in 0..1, fonts_ready \in BOOLEAN}
         : d \in Latencies}

(* ------------------------- render_with_chrome -------------------------- *)
\* index of the running call
Cur == Len(calls)

\* render_with_chrome returns r, and its locals go out of scope
Leave(r) ==
    /\ chrome_res' = Some(r)
    /\ pc' = "m_ret"
    /\ now' = 0
    /\ cli' = None
    /\ deadline' = None
    /\ eng' = EngInit
    /\ res' = None

\* a faulty Return, for C6: the browser outlives the call
ReturnLeaking(r) ==
    /\ Leave(r)
    /\ UNCHANGED <<alive, calls>>

\* ... among them the browser and the tab, which are dropped
Return(r) ==
    /\ Leave(r)
    /\ alive' = alive \ {Cur}
    /\ UNCHANGED calls

\* the closure of lines 787-861 fails with msg at time t
Fail(msg, t) ==
    /\ res' = Some(Err(msg))
    /\ pc' = "r_fail"
    /\ now' = t
    /\ UNCHANGED <<cli, calls, launched, alive, deadline, eng, chrome_res>>

\* lines 635-685: the profile directory, the launch options, Browser::new,
\* new_tab
Launch ==
    /\ pc = "r_launch"
    /\ \E headful \in BOOLEAN :
         /\ SessionReads([headful |-> headful])
         /\ calls' = Append(calls, headful)
    /\ \/ \* create_dir_all(&user_dir)?
          /\ Leave(Err(MsgIo))
          /\ UNCHANGED <<launched, alive>>
       \/ \* Browser::new(launch_opts)?
          \E m \in LibErrors :
            /\ Leave(Err(m))
            /\ UNCHANGED <<launched, alive>>
       \/ \* browser.new_tab()?: the browser that was started is dropped
          \E m \in LibErrors :
            /\ Leave(Err(m))
            /\ launched' = launched + 1
            /\ UNCHANGED alive
       \/ /\ launched' = launched + 1
          /\ alive' = alive \cup {Cur + 1}
          /\ pc' = "r_config"
          /\ UNCHANGED <<now, cli, deadline, eng, res, chrome_res>>
    /\ UNCHANGED <<html, http_res, out, exit, files>>
    /\ UNCHANGED page

\* lines 687-785: scripts, overrides, cookie import, then start and deadline
Configure ==
    /\ pc = "r_config"
    /\ \/ /\ \E m \in LibErrors \cup {MsgIo} : Return(Err(m))
          /\ UNCHANGED <<args, retry>>
       \/ \E max_wait_ms \in MaxWaitValues :
            /\ SessionReads([max_wait_ms |-> max_wait_ms])
            /\ deadline' = Some(now + max_wait_ms)
            /\ pc' = "r_nav"
            /\ UNCHANGED <<now, cli, calls, alive, eng, res, chrome_res>>
    /\ UNCHANGED <<html, http_res, launched, out, exit, files>>
    /\ UNCHANGED page

\* lines 788-791: navigate_to, wait_until_navigated, BringToFront, focus
Navigate ==
    /\ pc = "r_nav"
    /\ \E d \in Latencies :
         \/ \E m \in LibErrors : Fail(m, now + d)
         \/ /\ pc' = "r_ready"
            /\ now' = now + d
            /\ UNCHANGED <<cli, calls, launched, alive, deadline, eng, res, chrome_res>>
    /\ UNCHANGED <<args, html, http_res, retry, out, exit, files>>
    /\ UNCHANGED page

\* lines 505-512: wait_until_ready is entered
EngineStart ==
    /\ pc = "r_ready"
    /\ \E wait_ready \in WaitReadyValues :
         IF IsNone(wait_ready)
         THEN /\ SessionReads([wait_ready |-> wait_ready])
              /\ eng' = [EngInit EXCEPT !.result = Some(Ok("ready_state"))]
              /\ pc' = "r_ready_ret"
         ELSE /\ \E network_idle_ms \in IdleMsValues, idle_threshold \in ThresholdValues,
                    heuristic_min_chars \in MinCharsValues :
                   SessionReads([wait_ready |-> wait_ready,
                                 network_idle_ms |-> network_idle_ms,
                                 idle_threshold |-> idle_threshold,
                                 heuristic_min_chars |-> heuristic_min_chars])
              /\ eng' = EngInit
              /\ pc' = "r_poll"
    /\ UNCHANGED <<html, http_res, out, exit, files, now, cli, calls, launched,
                   alive, deadline, res, chrome_res>>
    /\ UNCHANGED page

\* the arguments of the running wait_until_ready call
EngArgs ==
    [wait_ready |-> Flag("wait_ready"),
     network_idle_ms |-> Flag("network_idle_ms"),
     idle_threshold |-> Flag("idle_threshold"),
     heuristic_min_chars |-> Flag("heuristic_min_chars")]

\* lines 514-579: one pass of the polling loop
EngineTick ==
    /\ pc = "r_poll"
    /\ \E o \in PollTick(eng, EngArgs, Unwrap(deadline), now) :
         /\ now' = o.at
         /\ eng' = o.eng
         /\ pc' = CASE o.kind = "return" -> "r_ready_ret"
                    [] o.kind = "settle" -> "r_settle"
                    [] OTHER -> "r_poll"
    /\ UNCHANGED <<args, html, http_res, retry, out, exit, files, cli, calls,
                   launched, alive, deadline, res, chrome_res>>
    /\ UNCHANGED page

\* lines 569-572: let _ = wait_images_and_fonts(tab, settle_deadline), then
\* Ok("heuristic") whatever it returned
SettleTick ==
    /\ pc = "r_settle"
    /\ \E o \in ImagesFontsTick(Unwrap(eng.settle_deadline), now) :
         /\ now' = o.at
         /\ IF o.kind = "sleep"
            THEN UNCHANGED <<pc, eng>>
            ELSE /\ pc' = "r_ready_ret"
                 /\ eng' = [EngInit EXCEPT !.result = Some(Ok("heuristic"))]
    /\ UNCHANGED <<args, html, http_res, retry, out, exit, files, cli, calls,
                   launched, alive, deadline, res, chrome_res>>
    /\ UNCHANGED page

\* lines 792-800: let wait_branch = wait_until_ready(..)?, then the
\* selector, if one was given
EngineReturn ==
    /\ pc = "r_ready_ret"
    /\ LET r == Unwrap(eng.result)
       IN  IF r.ok
           THEN /\ eng' = [EngInit EXCEPT !.wait_branch = Some(r.val)]
                /\ \E wait_selector \in SelectorValues :
                     /\ SessionReads([wait_selector |-> wait_selector])
                     /\ pc' = IF wait_selector = None THEN "r_capture" ELSE "r_selector"
                /\ UNCHANGED <<now, res>>
           ELSE /\ res' = Some(Err(r.msg))
                /\ eng' = EngInit
                /\ pc' = "r_fail"
                /\ UNCHANGED <<now, args, retry>>
    /\ UNCHANGED <<html, http_res, out, exit, files, cli, calls, launched,
                   alive, deadline, chrome_res>>
    /\ UNCHANGED page

\* lines 582-590 and 801: one pass of wait_for_selector(..)?
SelectorTick ==
    /\ pc = "r_selector"
    /\ IF now < Unwrap(deadline)
       THEN \E d \in Latencies, found \in BOOLEAN :
              /\ now' = IF found THEN now + d ELSE now + d + SelectorPollMs
              /\ pc' = IF found THEN "r_capture" ELSE "r_selector"
              /\ UNCHANGED res
       ELSE /\ res' = Some(Err(MsgSelectorTimeout))
            /\ pc' = "r_fail"
            /\ UNCHANGED now
    /\ UNCHANGED <<args, html, http_res, retry, out, exit, files, cli, calls,
                   launched, alive, deadline, eng, chrome_res>>
    /\ UNCHANGED page

(* ------------------------------ the captures --------------------------- *)
\* document.body.innerText as <<its first 4096 characters, the rest>>
Segments == {"Welcome", "Verifying You Are Human", "checking your browser",
             "Press And Hold"}
InnerTexts == Segments \X Segments

\* innerText.slice(0, 4096)
Slice4096(text) == text[1]

\* str::to_ascii_lowercase
AsciiLower(t) ==
    CASE t = "Verifying You Are Human" -> "verifying you are human"
      [] t = "Press And Hold" -> "press and hold"
      [] t = "Welcome" -> "welcome"
      [] OTHER -> t

\* a faulty Challenge, for C16: the text is compared as it is written
ChallengeCaseSensitive(body_text) ==
    IF body_text = None THEN FALSE
    ELSE LET l == Unwrap(body_text)
         IN  \/ l = "checking your browser"
             \/ l = "verifying you are human"
             \/ l = "press and hold"

\* lines 816-824: body_text is the Option the evaluation returned
Challenge(body_text) ==
    IF body_text = None THEN FALSE
    ELSE LET l == AsciiLower(Unwrap(body_text))
         IN  \/ l = "checking your browser"
             \/ l = "verifying you are human"
             \/ l = "press and hold"

\* the fallible steps of lines 804-833, in order; the odd ones are browser
\* calls, the even ones writes to the run directory
CaptureSteps ==
    <<"export_cookies", "write_cookies", "body_text", "get_content",
      "write_dom_html", "capture_screenshot", "write_png">>
IsWrite(step) == step \in {"write_cookies", "write_dom_html", "write_png"}
CaptureFile(step) ==
    CASE step = "write_cookies" -> "cookies_json"
      [] step = "write_dom_html" -> "dom_html"
      [] step = "write_png" -> "png"
\* the steps that run when --export-cookies is export_cookies
Runs(export_cookies, step) ==
    step \in {"export_cookies", "write_cookies"} => export_cookies # None
\* files written by the steps before position n
WrittenBefore(export_cookies, n) ==
    {CaptureFile(CaptureSteps[i]) :
        i \in {j \in 1..(n - 1) :
                  IsWrite(CaptureSteps[j]) /\ Runs(export_cookies, CaptureSteps[j])}}

\* lines 804-833: cookies, challenge text, DOM HTML, screenshot
Capture ==
    /\ pc = "r_capture"
    /\ \E export_cookies \in ExportValues :
         /\ SessionReads([export_cookies |-> export_cookies])
         /\ \/ \E n \in 1..Len(CaptureSteps) :
                 /\ Runs(export_cookies, CaptureSteps[n])
                 /\ files' = files \cup WrittenBefore(export_cookies, n)
                 /\ \E m \in (IF IsWrite(CaptureSteps[n]) THEN {MsgIo} ELSE LibErrors) :
                      Fail(m, now)
            \/ \E text \in {None} \cup {Some(Slice4096(t)) : t \in InnerTexts} :
                 /\ files' = files \cup WrittenBefore(export_cookies, Len(CaptureSteps) + 1)
                 /\ eng' = [eng EXCEPT !.body_text = text,
                                        !.challenge = Challenge(text)]
                 /\ pc' = "r_pdfwait"
                 /\ UNCHANGED <<now, cli, calls, launched, alive, deadline, res,
                                chrome_res>>
    /\ UNCHANGED <<html, http_res, out, exit>>
    /\ UNCHANGED page

\* lines 848-860
ChromeRes(e) ==
    [kind |-> "Success",
     status |-> None,
     html_path |-> "dom_html",
     screenshot_path |-> Some("png"),
     pdf_path |-> Some("pdf"),
     waf_detected |-> e.challenge,
     anti_bot_vendor |-> None,
     js_challenge |-> e.challenge,
     wait_branch |-> Unwrap(e.wait_branch)]

\* lines 835-861: one pass of wait_images_and_fonts(&tab, deadline)?, and
\* once it clears the PDF and the closure's Ok
PdfTick ==
    /\ pc = "r_pdfwait"
    /\ \E o \in ImagesFontsTick(Unwrap(deadline), now) :
         CASE o.kind = "err" ->
                /\ Fail(o.msg, o.at)
                /\ UNCHANGED files
           [] o.kind = "sleep" ->
                /\ now' = o.at
                /\ UNCHANGED <<pc, cli, calls, launched, alive, deadline, eng,
                               res, chrome_res, files>>
           [] OTHER ->
                \/ \E m \in LibErrors \cup {MsgIo} :
                     /\ Fail(m, o.at)
                     /\ UNCHANGED files
                \/ /\ files' = files \cup {"pdf"}
                   /\ Return(Ok(ChromeRes(eng)))
                   /\ UNCHANGED launched
    /\ UNCHANGED <<args, html, http_res, retry, out, exit>>
    /\ UNCHANGED page

(* ----------------------- the failure handler --------------------------- *)
\* a faulty IsTimeoutLike, for C26: the word timeout is not looked for
IsLibTimeout(msg) == MsgContains(msg, <<"EventNeverCame">>)

IsTimeoutLike(msg) ==
    MsgContains(msg, <<"timeout">>) \/ MsgContains(msg, <<"EventNeverCame">>)

\* lines 868-874
WaitBranchOf(msg) ==
    IF MsgContains(msg, <<"network", "idle">>) THEN "network_idle"
    ELSE IF MsgContains(msg, <<"readyState">>) THEN "ready_state"
    ELSE "heuristic"

\* the four probes of lines 876-898, each evaluated with `?`
DiagProbes == {"dom_text_chars", "images_total", "images_incomplete",
               "pending_requests"}
\* what the four probes report
DiagSamples ==
    {[dom_text_chars |-> 0, images_total |-> 0, images_incomplete |-> 0,
      pending_requests |-> 0],
     [dom_text_chars |-> DefaultMinChars, images_total |-> 1,
      images_incomplete |-> 1, pending_requests |-> MaxPending]}

\* lines 933-951
TimeoutReport(msg, max_wait_ms, diag, pdf_saved) ==
    [kind |-> "TimeoutReport",
     status |-> "timeout",
     reason |-> msg,
     deadline_ms |-> max_wait_ms,
     wait_branch |-> WaitBranchOf(msg),
     diagnostics |-> diag,
     artifacts |-> [html |-> "dbg_dom_html", screenshot |-> "dbg_png",
                    pdf |-> pdf_saved]]

\* lines 903-905: get_content().unwrap_or_default(), then let _ = write:
\* the DOM is written, or an empty file is, or the write fails
DebugHtml == {{"dbg_dom_html"}, {"dbg_dom_html(empty)"}, {}}
\* lines 906-911: the screenshot is written only if it was captured
DebugShot == {{"dbg_png"}, {}}
\* lines 917-931: so is the PDF, and pdf_saved is Some only then
DebugPdf == {{"dbg_pdf"}, {}}
PdfSaved(pdf) == IF pdf = {} THEN None ELSE Some("dbg_pdf")

\* lines 863-957: match res { Err(e) => .. }
Diagnose ==
    /\ pc = "r_fail"
    /\ LET msg == Unwrap(res).msg
       IN  IF IsTimeoutLike(msg)
           THEN \/ \E probe \in DiagProbes, m \in LibErrors :
                     /\ Return(Err(m))
                     /\ UNCHANGED files
                \/ /\ Return(Err(MsgIo))
                   /\ UNCHANGED files
                \/ \E diag \in DiagSamples, dom \in DebugHtml, shot \in DebugShot,
                      pdf \in DebugPdf :
                     /\ files' = files \cup dom \cup shot \cup pdf
                     /\ Return(Ok(TimeoutReport(msg, Flag("max_wait_ms"), diag,
                                                PdfSaved(pdf))))
           ELSE /\ Return(Err(msg))
                /\ UNCHANGED files
    /\ UNCHANGED <<args, html, http_res, retry, launched, out, exit>>
    /\ UNCHANGED page

(* --------------------------- main, continued --------------------------- *)
\* a faulty ShouldRetry, for C5: a headful first call is retried too
ShouldRetryHeadful(r, a) ==
    ~r.ok /\ Unwrap(a.headful_fallback)

\* line 258, on the Cli a as main has read it
ShouldRetry(r, a) ==
    ~r.ok /\ Unwrap(a.headful_fallback) /\ ~Unwrap(a.headful)

\* a faulty RetryOf, for C19: the copy also gives up the fallback
RetryWithoutFallback(a) ==
    [a EXCEPT !.headful = Some(TRUE), !.headful_fallback = Some(FALSE)]

\* lines 259-260: let mut retry = args.clone(); retry.headful = true
RetryOf(a) == [a EXCEPT !.headful = Some(TRUE)]

\* line 258 is reached once, with no retry made yet; it reads the two
\* flags only when the call failed
Line258(r) ==
    IF retry = None /\ ~r.ok
    THEN \E fallback \in BOOLEAN, headful \in BOOLEAN :
           MainReads([headful_fallback |-> fallback, headful |-> headful])
    ELSE UNCHANGED args

\* lines 258-262
RetryHeadful ==
    /\ pc = "m_ret"
    /\ retry = None
    /\ Line258(Unwrap(chrome_res))
    /\ ShouldRetry(Unwrap(chrome_res), args')
    /\ retry' = Some(RetryOf(args'))
    /\ CallRender("retry")
    /\ UNCHANGED <<html, http_res, out, exit, files>>
    /\ UNCHANGED page

\* lines 267-283
RenderOutput(chrome) ==
    [kind |-> "ProbeResult",
     http_status |-> IF chrome.status = None THEN UnknownStatus ELSE Unwrap(chrome.status),
     requires_javascript |-> TRUE,
     waf_detected |-> chrome.waf_detected,
     anti_bot_vendor |-> chrome.anti_bot_vendor,
     js_challenge_page |-> chrome.js_challenge,
     screenshot_path |-> chrome.screenshot_path,
     pdf_path |-> chrome.pdf_path,
     html_path |-> chrome.html_path,
     pages_crawled |-> 1,
     wait_branch |-> chrome.wait_branch]

\* a faulty ContinueOutput, for C4: the status of a rendered page
ContinueOutputWithStatus(report) ==
    [kind |-> "ProbeResult",
     http_status |-> UnknownStatus,
     requires_javascript |-> TRUE,
     waf_detected |-> FALSE,
     anti_bot_vendor |-> None,
     js_challenge_page |-> FALSE,
     screenshot_path |-> Some(report.artifacts.screenshot),
     pdf_path |-> report.artifacts.pdf,
     html_path |-> report.artifacts.html,
     pages_crawled |-> 1,
     wait_branch |-> report.wait_branch]

\* lines 293-316
ContinueOutput(report) ==
    [kind |-> "ProbeResult",
     http_status |-> 0,
     requires_javascript |-> TRUE,
     waf_detected |-> FALSE,
     anti_bot_vendor |-> None,
     js_challenge_page |-> FALSE,
     screenshot_path |-> Some(report.artifacts.screenshot),
     pdf_path |-> report.artifacts.pdf,
     html_path |-> report.artifacts.html,
     pages_crawled |-> 1,
     wait_branch |-> report.wait_branch]

\* lines 287-321: the disposition of a timeout outcome
Dispose(report, on_timeout) ==
    CASE on_timeout = "report" -> WriteJsonAndExit(report, TimeoutExit)
      [] on_timeout = "continue" -> WriteJsonAndExit(ContinueOutput(report), 0)
      [] OTHER -> /\ exit' = Some(Fatal(report.reason))
                  /\ UNCHANGED <<out, files>>

\* lines 263-322
Finish ==
    /\ pc = "m_ret"
    /\ LET r == Unwrap(chrome_res)
       IN  IF ~r.ok
           THEN /\ Line258(r)
                /\ ~(retry = None /\ ShouldRetry(r, args'))
                /\ exit' = Some(Fatal(<<"headless-chrome", "render", "failed">> \o r.msg))
                /\ UNCHANGED <<out, files>>
           ELSE IF r.val.kind = "Success"
                THEN /\ WriteJsonAndExit(RenderOutput(r.val), 0)
                     /\ UNCHANGED args
                ELSE \E on_timeout \in OnTimeoutValues :
                       /\ MainReads([on_timeout |-> on_timeout])
                       /\ Dispose(r.val, on_timeout)
    /\ pc' = "done"
    /\ UNCHANGED <<html, http_res, retry, session>>
    /\ UNCHANGED page

Next ==
    \/ NewRunPaths
    \/ FetchHttp
    \/ Decide
    \/ Launch
    \/ Configure
    \/ Navigate
    \/ EngineStart
    \/ EngineTick
    \/ SettleTick
    \/ EngineReturn
    \/ SelectorTick
    \/ Capture
    \/ PdfTick
    \/ Diagnose
    \/ RetryHeadful
    \/ Finish

Spec == Init /\ [][Next]_vars

(* ===================== the instrumented document ======================= *)
\* build_instrument_js and the document its script runs in.  A URL and the
\* pattern are sequences of segments; RegExp.test looks for the pattern
\* anywhere in the URL, and the empty pattern is found in every URL.
Urls == {<<>>, <<"api">>, <<"ads", "px">>}

\* line 706: args.idle_ignore.as_deref().unwrap_or("")
IgnoreOf(idle_ignore) == IF idle_ignore = None THEN <<>> ELSE Unwrap(idle_ignore)

\* IGNORE.test(url)
RegExpTest(pattern, url) == MsgContains(url, pattern)

\* a faulty Install, for C12: the script without its first line
InstallUnguarded(d, ignore) ==
    [d EXCEPT !.ankabot = Some(0), !.IGNORE = ignore, !.layers = @ + 1]

\* lines 466-492: the script.  It returns at once when window.__ankabot is
\* set; otherwise it sets the counter to 0 and wraps fetch, open and send.
Install(d, ignore) ==
    IF d.ankabot # None
    THEN d
    ELSE [d EXCEPT !.ankabot = Some(0), !.IGNORE = ignore, !.layers = @ + 1]

\* window.__ankabot.pending changed by n
Count(d, n) == [d EXCEPT !.ankabot = Some(Unwrap(@) + n)]

\* the counter is within the range that is followed
Followed(d) ==
    d.ankabot = None \/ Unwrap(d.ankabot) \in (0 - MaxCount)..MaxCount

\* lines 706-712: the script is built from --idle-ignore and runs in the
\* document (run_immediately, and on every new document) before the page's
\* own scripts do
RunScript ==
    /\ doc.installs < MaxInstalls
    /\ \E idle_ignore \in IgnoreValues :
         /\ SessionReads([idle_ignore |-> idle_ignore])
         /\ doc' = [Install(doc, IgnoreOf(idle_ignore)) EXCEPT !.installs = @ + 1]
    /\ UNCHANGED <<invocation, jar>>

\* lines 472-477: the page calls fetch(url); each wrapper around the native
\* fetch counts the request unless IGNORE matches
PageFetch ==
    /\ doc.installs >= 1
    /\ Len(doc.fetches) < MaxFetches
    /\ \E url \in Urls :
         doc' = [Count(doc, IF RegExpTest(doc.IGNORE, url) THEN 0 ELSE doc.layers)
                   EXCEPT !.fetches = Append(@, [url |-> url, wraps |-> doc.layers])]
    /\ Followed(doc')
    /\ UNCHANGED <<args, retry, invocation, jar>>

\* line 476: the promise settles, fulfilled or rejected, and every
\* wrapper's finally runs
FetchSettles ==
    /\ \E i \in 1..Len(doc.fetches) :
         LET f == doc.fetches[i]
         IN  doc' = [Count(doc, IF RegExpTest(doc.IGNORE, f.url) THEN 0 ELSE 0 - f.wraps)
                       EXCEPT !.fetches = SubSeq(@, 1, i - 1) \o SubSeq(@, i + 1, Len(@))]
    /\ Followed(doc')
    /\ UNCHANGED <<args, retry, invocation, jar>>

\* lines 479-483: xhr.open(m, u) remembers the URL on the object; the native
\* open ends a request in flight without an event
XhrOpen ==
    /\ doc.installs >= 1
    /\ \E u \in Urls :
         doc' = [doc EXCEPT !.xhr.url = u, !.xhr.state = "opened"]
    /\ UNCHANGED <<args, retry, invocation, jar>>

\* lines 484-491: xhr.send(): each wrapper counts the request unless IGNORE
\* matches the remembered URL and adds a once-listener for loadend; then the
\* native send starts the request, or throws when the object is not opened
XhrSend ==
    /\ doc.installs >= 1
    /\ doc.xhr.listeners + doc.layers <= MaxListeners
    /\ doc' = [Count(doc, IF RegExpTest(doc.IGNORE, doc.xhr.url) THEN 0 ELSE doc.layers)
                 EXCEPT !.xhr.listeners = @ + doc.layers,
                        !.xhr.state = IF @ = "opened" THEN "sent" ELSE @]
    /\ Followed(doc')
    /\ UNCHANGED <<args, retry, invocation, jar>>

\* lines 486-488: loadend is fired, by success, error or abort; every
\* listener runs once and tests the URL the object remembers by then
XhrLoadEnd ==
    /\ doc.xhr.state = "sent"
    /\ doc' = [Count(doc, IF RegExpTest(doc.IGNORE, doc.xhr.url)
                          THEN 0 ELSE 0 - doc.xhr.listeners)
                 EXCEPT !.xhr.listeners = 0, !.xhr.state = "unsent"]
    /\ Followed(doc')
    /\ UNCHANGED <<args, retry, invocation, jar>>

DocNext ==
    \/ RunScript
    \/ PageFetch
    \/ FetchSettles
    \/ XhrOpen
    \/ XhrSend
    \/ XhrLoadEnd

DocSpec == Init /\ [][DocNext]_vars

(* ============================= cookies ================================= *)
\* export_cookies_from_chrome, the JSON file, import_cookies_to_chrome.
\* The browser is known through the protocol only: Network.getCookies
\* reports a cookie without expiry as session = true, expires = -1, and
\* Network.setCookies makes a session cookie of a parameter whose expires
\* is not set or negative, and keeps the other attributes as given.
ExpiryValues == {0 - 1, 1800000000}

\* Network.Cookie values the browser reports
Cookies ==
    {[name |-> n, value |-> "v", domain |-> d, path |-> "/", expires |-> e,
      http_only |-> h, secure |-> sec, session |-> e < 0]
       : n \in {"sid", "pref"}, d \in {"example.com", ".example.com"},
         e \in ExpiryValues, h \in BOOLEAN, sec \in BOOLEAN}

\* the browser keeps one cookie per name, domain and path
CookieKey(c) == <<c.name, c.domain, c.path>>
RECURSIVE CookieSetsUpTo(_)
CookieSetsUpTo(n) ==
    IF n = 0 THEN {{}}
    ELSE LET smaller == CookieSetsUpTo(n - 1)
         IN  smaller \cup
             UNION {{S \cup {c} : c \in {k \in Cookies :
                                            \A x \in S : CookieKey(x) # CookieKey(k)}}
                      : S \in smaller}
CookieSets == CookieSetsUpTo(MaxCookies)

\* a faulty CookieJsonOf, for C15: the expiry is not exported
CookieJsonWithoutExpiry(c) ==
    [name |-> c.name, value |-> c.value, domain |-> c.domain, path |-> c.path,
     secure |-> c.secure, http_only |-> c.http_only, expires |-> None]

\* lines 451-459: CookieJson { .., expires: Some(c.expires) }
CookieJsonOf(c) ==
    [name |-> c.name, value |-> c.value, domain |-> c.domain, path |-> c.path,
     secure |-> c.secure, http_only |-> c.http_only, expires |-> Some(c.expires)]

\* serde_json's text of an f64, and the f64 of such a text
F64Text(x) ==
    CASE x = 0 - 1 -> "-1.0"
      [] x = 1800000000 -> "1800000000.0"
F64Parse(t) ==
    CASE t = "-1.0" -> 0 - 1
      [] t = "1800000000.0" -> 1800000000

\* lines 397-408, Serialize: the JSON object of a CookieJson; http_only is
\* renamed httpOnly, an f64 is written in decimal, a None as null
ToJson(j) ==
    [name |-> j.name, value |-> j.value, domain |-> j.domain, path |-> j.path,
     secure |-> j.secure, httpOnly |-> j.http_only,
     expires |-> IF j.expires = None THEN "null" ELSE F64Text(Unwrap(j.expires))]

\* lines 397-408, Deserialize: httpOnly and expires may be missing
\* (#[serde(default)]); null is None
FromJson(o) ==
    [name |-> o.name, value |-> o.value, domain |-> o.domain, path |-> o.path,
     secure |-> o.secure,
     http_only |-> IF "httpOnly" \in DOMAIN o THEN o.httpOnly ELSE FALSE,
     expires |-> IF "expires" \in DOMAIN o /\ o.expires # "null"
                 THEN Some(F64Parse(o.expires)) ELSE None]

\* lines 418-435: Network::CookieParam of a CookieJson
CookieParamOf(j) ==
    [name |-> j.name, value |-> j.value, url |-> None, domain |-> Some(j.domain),
     path |-> Some(j.path), secure |-> Some(j.secure),
     http_only |-> Some(j.http_only), same_site |-> None, expires |-> j.expires]

\* Network.setCookies in a session without cookies: the cookie the browser
\* reports afterwards for parameter p
SetCookie(p) ==
    LET noExpiry == p.expires = None \/ Unwrap(p.expires) < 0
    IN  [name |-> p.name, value |-> p.value, domain |-> Unwrap(p.domain),
         path |-> Unwrap(p.path),
         expires |-> IF noExpiry THEN 0 - 1 ELSE Unwrap(p.expires),
         http_only |-> Unwrap(p.http_only), secure |-> Unwrap(p.secure),
         session |-> noExpiry]

\* the orders in which tab.get_cookies() may list the set S
RECURSIVE Listings(_)
Listings(S) ==
    IF S = {} THEN {<<>>}
    ELSE UNION {{<<c>> \o l : l \in Listings(S \ {c})} : c \in S}

\* a profile with some cookies, before main starts
CookieInit ==
    /\ Idle
    /\ doc = NewDocument
    /\ \E S \in CookieSets : jar = [NoJar EXCEPT !.first = S]

\* lines 804-807 and 441-462: the cookies of the session are listed,
\* converted and written to the file as JSON
ExportCookies ==
    /\ jar.exported = None
    /\ \E all \in Listings(jar.first) :
         jar' = [jar EXCEPT !.exported =
                   Some([i \in 1..Len(all) |-> ToJson(CookieJsonOf(all[i]))])]
    /\ UNCHANGED <<args, retry, invocation, doc>>

\* lines 778-782 and 410-439: a session of a new profile reads the file and
\* sets the cookies it lists
ImportCookies ==
    /\ jar.exported # None
    /\ jar.second = None
    /\ LET list == [i \in 1..Len(Unwrap(jar.exported)) |->
                      FromJson(Unwrap(jar.exported)[i])]
       IN  jar' = [jar EXCEPT !.second =
                     Some({SetCookie(CookieParamOf(list[i])) : i \in 1..Len(list)})]
    /\ UNCHANGED <<args, retry, invocation, doc>>

CookieNext ==
    \/ ExportCookies
    \/ ImportCookies

CookieSpec == CookieInit /\ [][CookieNext]_vars
(* ============================ properties =============================== *)

\* C1 (as stated): whenever the body fetch_http read is non-blank, at least
\* 512 bytes long, has a body-open marker and at least one hyperlink marker,
\* main short-circuits: it ends at once, no render_with_chrome call is made,
\* no browser is launched, and any record written is a ProbeResult with
\* requires_javascript = false and pages_crawled = 0.
C1_ShortCircuit_AsStated ==
    [][(/\ pc = "fetched"
        /\ html # None
        /\ LET h == Unwrap(html)
           IN  /\ ~TrimIsEmpty(h)
               /\ ByteLen(h) >= MinBodyLen
               /\ LowerContains(h, "<body")
               /\ MatchCount(h, "<a ") >= 1)
       => (/\ pc' = "done"
           /\ calls' = <<>>
           /\ launched' = 0
           /\ \A i \in 1..Len(out') :
                /\ out'[i].kind = "ProbeResult"
                /\ out'[i].requires_javascript = FALSE
                /\ out'[i].pages_crawled = 0)]_vars

\* C1 (amended): the same, provided fetch_http returned Ok, that is, the
\* copy of the body was saved to http_raw.html; and the invocation, once
\* ended, takes no further step, so no browser is ever launched.
C1_ShortCircuit ==
    [][/\ (/\ pc = "fetched"
           /\ Unwrap(http_res).ok
           /\ html # None
           /\ LET h == Unwrap(html)
              IN  /\ ~TrimIsEmpty(h)
                  /\ ByteLen(h) >= MinBodyLen
                  /\ LowerContains(h, "<body")
                  /\ MatchCount(h, "<a ") >= 1)
          => (/\ pc' = "done"
              /\ calls' = <<>>
              /\ launched' = 0
              /\ \A i \in 1..Len(out') :
                   /\ out'[i].kind = "ProbeResult"
                   /\ out'[i].requires_javascript = FALSE
                   /\ out'[i].pages_crawled = 0)
       /\ pc = "done" => UNCHANGED vars]_vars

\* C1 witness: a body of exactly 512 bytes was short-circuited into a record
C1_Witness ==
    /\ pc = "done"
    /\ html # None
    /\ ByteLen(Unwrap(html)) = MinBodyLen
    /\ launched = 0
    /\ Len(out) = 1
    /\ out[1].requires_javascript = FALSE
    /\ out[1].pages_crawled = 0

\* C2: whenever fetch_http failed, or the body it read is blank, shorter than
\* 512 bytes, without a body marker or without a hyperlink, main calls
\* render_with_chrome and writes nothing first; and every ProbeResult written
\* after a render_with_chrome call has requires_javascript = true and one of
\* the three readiness branches as its wait_branch.
C2_NeedsRender ==
    [][/\ (/\ pc = "fetched"
           /\ \/ ~Unwrap(http_res).ok
              \/ html = None
              \/ LET h == Unwrap(html)
                 IN  \/ TrimIsEmpty(h)
                     \/ ByteLen(h) < MinBodyLen
                     \/ ~LowerContains(h, "<body")
                     \/ MatchCount(h, "<a ") = 0)
          => (/\ pc' = "r_launch"
              /\ cli' # None
              /\ out' = <<>>
              /\ exit' = None)
       /\ \A i \in 1..Len(out') :
            (out'[i].kind = "ProbeResult" /\ calls' # <<>>)
            => (/\ out'[i].requires_javascript = TRUE
                /\ out'[i].wait_branch \in {"ready_state", "network_idle", "heuristic"})]_vars

\* C2 witness: the fetch was tried, the browser path ran, a ProbeResult came
\* out of it
C2_Witness ==
    /\ pc = "done"
    /\ Has(args, "force_chrome", FALSE)
    /\ calls # <<>>
    /\ Len(out) = 1
    /\ out[1].kind = "ProbeResult"
    /\ out[1].requires_javascript = TRUE

\* C3 (as stated): an invocation that has ended has written exactly one
\* record, a ProbeResult or a TimeoutReport.
C3_OneRecord_AsStated ==
    pc = "done" =>
        /\ Len(out) = 1
        /\ out[1].kind \in {"ProbeResult", "TimeoutReport"}

\* C3 (amended): at most one record is ever written, a ProbeResult or a
\* TimeoutReport, and none before the invocation ends; an invocation that
\* has ended has written exactly one unless it ended in a hard failure
\* (main returned Err), and then it has written none.
C3_OneRecord ==
    /\ Len(out) <= 1
    /\ \A i \in 1..Len(out) : out[i].kind \in {"ProbeResult", "TimeoutReport"}
    /\ pc # "done" => out = <<>>
    /\ pc = "done" => (Len(out) = 1 <=> Unwrap(exit).error = None)

\* C3 witness: after a headful retry, a hard failure and no record
C3_Witness ==
    /\ pc = "done"
    /\ Len(calls) = 2
    /\ out = <<>>
    /\ Unwrap(exit).error # None

\* C4 (as stated): after a timeout outcome, `report` writes the TimeoutReport
\* and exits with code 2; `continue` writes a ProbeResult with http_status 0,
\* waf_detected = false, js_challenge_page = false and ends normally; `fail`
\* writes nothing and fails with the timeout reason.
C4_Disposition_AsStated ==
    (/\ pc = "done"
     /\ chrome_res # None
     /\ Unwrap(chrome_res).ok
     /\ Unwrap(chrome_res).val.kind = "TimeoutReport")
    => LET report == Unwrap(chrome_res).val
       IN  CASE Has(args, "on_timeout", "report") ->
                  /\ out = <<report>>
                  /\ exit = Some(Exit(TimeoutExit))
             [] Has(args, "on_timeout", "continue") ->
                  /\ Len(out) = 1
                  /\ out[1].kind = "ProbeResult"
                  /\ out[1].http_status = 0
                  /\ out[1].waf_detected = FALSE
                  /\ out[1].js_challenge_page = FALSE
                  /\ exit = Some(Exit(0))
             [] OTHER ->
                  /\ Has(args, "on_timeout", "fail")
                  /\ out = <<>>
                  /\ exit = Some(Fatal(report.reason))

\* C4 (amended): the same, except that under `report` and `continue` a
\* record that cannot be written ends the invocation in a hard failure with
\* no record instead.
C4_Disposition ==
    (/\ pc = "done"
     /\ chrome_res # None
     /\ Unwrap(chrome_res).ok
     /\ Unwrap(chrome_res).val.kind = "TimeoutReport")
    => LET report == Unwrap(chrome_res).val
           unwritten == out = <<>> /\ exit = Some(Fatal(MsgIo))
       IN  CASE Has(args, "on_timeout", "report") ->
                  \/ /\ out = <<report>>
                     /\ exit = Some(Exit(TimeoutExit))
                  \/ unwritten
             [] Has(args, "on_timeout", "continue") ->
                  \/ /\ Len(out) = 1
                     /\ out[1].kind = "ProbeResult"
                     /\ out[1].http_status = 0
                     /\ out[1].waf_detected = FALSE
                     /\ out[1].js_challenge_page = FALSE
                     /\ exit = Some(Exit(0))
                  \/ unwritten
             [] OTHER ->
                  /\ Has(args, "on_timeout", "fail")
                  /\ out = <<>>
                  /\ exit = Some(Fatal(report.reason))

\* C4 witness: a timeout outcome disposed of by `continue`
C4_Witness ==
    /\ pc = "done"
    /\ chrome_res # None
    /\ Unwrap(chrome_res).ok
    /\ Unwrap(chrome_res).val.kind = "TimeoutReport"
    /\ Has(args, "on_timeout", "continue")
    /\ Len(out) = 1
    /\ exit = Some(Exit(0))

\* C5: when the first render_with_chrome call returns Err, main calls it a
\* second time, with a headful copy of the configuration and before it ends,
\* exactly when --headful-fallback is set and the first call was headless;
\* otherwise it ends with the error.  After a call that returned Ok, and
\* after the second call, main ends.  So there are never more than two calls
\* or two browsers launched, and a second call is headful after a headless
\* first.
C5_HeadfulRetryOnce ==
    [][/\ (pc = "m_ret" /\ Len(calls) = 1 /\ ~Unwrap(chrome_res).ok)
          => IF args'["headful_fallback"] = Some(TRUE) /\ calls[1] = FALSE
             THEN /\ pc' = "r_launch"
                  /\ retry' # None
                  /\ Unwrap(retry')["headful"] = Some(TRUE)
                  /\ cli' = Some("retry")
                  /\ exit' = None
             ELSE /\ pc' = "done"
                  /\ Unwrap(exit').error # None
       /\ (pc = "m_ret" /\ (Len(calls) = 2 \/ Unwrap(chrome_res).ok))
          => pc' = "done"
       /\ Len(calls') <= 2
       /\ launched' <= 2
       /\ Len(calls') = 2 => (calls'[1] = FALSE /\ calls'[2] = TRUE)]_vars

\* C5 witness: the headful retry was made, and failed too
C5_Witness ==
    /\ pc = "done"
    /\ calls = <<FALSE, TRUE>>
    /\ launched = 2
    /\ Unwrap(exit).error # None

\* C6: at most one browser is alive at any time, and only that of the
\* running call; none is alive while main runs, in particular not when the
\* retry call is made nor when the invocation has ended.
C6_Released ==
    /\ Cardinality(alive) <= 1
    /\ alive \subseteq {Len(calls)}
    /\ pc \in {"main", "fetch", "fetched", "r_launch", "m_ret", "done"} => alive = {}

\* C6 witness: the browser of the retry is alive, the first one is gone
C6_Witness ==
    /\ launched = 2
    /\ alive = {2}

\* C7 (as stated): wait_until_ready returns Ok or its timeout error no later
\* than the deadline plus one poll interval.
C7_BoundedOverrun_AsStated ==
    (/\ pc = "r_ready_ret"
     /\ \/ Unwrap(eng.result).ok
        \/ Unwrap(eng.result) = Err(MsgReadyTimeout))
    => now <= Unwrap(deadline) + PollMs

\* C8 (as stated): when wait_until_ready is entered, or starts a pass of its
\* loop, with the deadline reached, it does not return Ok.
C8_TimedOut_AsStated ==
    [][(/\ pc \in {"r_ready", "r_poll"}
        /\ now >= Unwrap(deadline)
        /\ pc' = "r_ready_ret")
       => Unwrap(eng'.result) = Err(MsgReadyTimeout)]_vars

\* C8 (amended): a pass of the loop that starts with the deadline reached
\* returns the timeout error at once; wait_until_ready entered with the
\* deadline reached starts that pass at the same instant, unless wait_ready
\* is none, and then it returns Ok without looking at the deadline.
C8_TimedOut ==
    [][/\ (pc = "r_poll" /\ now >= Unwrap(deadline))
          => (/\ pc' = "r_ready_ret"
              /\ Unwrap(eng'.result) = Err(MsgReadyTimeout)
              /\ now' = now)
       /\ (pc = "r_ready" /\ now >= Unwrap(deadline))
          => IF IsNone(Flag("wait_ready")')
             THEN /\ pc' = "r_ready_ret"
                  /\ Unwrap(eng'.result).ok
             ELSE /\ pc' = "r_poll"
                  /\ now' = now]_vars

\* C8 witness: --max-wait-ms 1, and the engine has timed out
C8_Witness ==
    /\ pc = "r_ready_ret"
    /\ Flag("max_wait_ms") = 1
    /\ now >= Unwrap(deadline)
    /\ Unwrap(eng.result) = Err(MsgReadyTimeout)

\* C9 (as stated): with wait_ready = none, wait_until_ready returns Ok at
\* once, and the branch it returns is "none".
C9_ReadyNone_AsStated ==
    [][(pc = "r_ready" /\ IsNone(Flag("wait_ready")'))
       => (/\ pc' = "r_ready_ret"
           /\ now' = now
           /\ Unwrap(eng'.result) = Ok("none"))]_vars

\* C10 (as stated): once the closure has failed with a timeout-like error,
\* render_with_chrome returns a timeout outcome.
C10_BestEffort_AsStated ==
    [][(pc = "r_fail" /\ IsTimeoutLike(Unwrap(res).msg))
       => (/\ chrome_res' # None
           /\ Unwrap(chrome_res').ok
           /\ Unwrap(chrome_res').val.kind = "TimeoutReport")]_vars

\* C11 (as stated): once the page was found ready and its HTML and
\* screenshot are captured, neither the image/font wait before the PDF nor
\* the PDF itself makes the closure fail.
C11_OptionalCaptures_AsStated ==
    [][pc = "r_pdfwait" => pc' # "r_fail"]_vars

\* C12: running the instrumentation script again in a document it has
\* already run in changes nothing of the document: the counter is not
\* reset, and fetch, open and send are never wrapped more than once.  So a
\* fetch call changes the counter by exactly 1 when it is made and by
\* exactly -1 when it settles (by 0 both times when the URL is ignored), and
\* a send call changes it by exactly 1 (or 0) and adds one listener.
C12_InstallTwice ==
    [][/\ (doc.installs >= 1 /\ doc'.installs > doc.installs)
          => doc' = [doc EXCEPT !.installs = doc'.installs]
       /\ doc'.layers <= 1
       /\ Len(doc'.fetches) > Len(doc.fetches)
          => LET url == doc'.fetches[Len(doc'.fetches)].url
             IN  Unwrap(doc'.ankabot) - Unwrap(doc.ankabot)
                   = IF RegExpTest(doc.IGNORE, url) THEN 0 ELSE 1
       /\ Len(doc'.fetches) < Len(doc.fetches)
          => \E i \in 1..Len(doc.fetches) :
               /\ doc'.fetches = SubSeq(doc.fetches, 1, i - 1)
                                   \o SubSeq(doc.fetches, i + 1, Len(doc.fetches))
               /\ Unwrap(doc'.ankabot) - Unwrap(doc.ankabot)
                    = IF RegExpTest(doc.IGNORE, doc.fetches[i].url) THEN 0 ELSE 0 - 1
       /\ doc'.xhr.listeners > doc.xhr.listeners
          => /\ doc'.xhr.listeners = doc.xhr.listeners + 1
             /\ Unwrap(doc'.ankabot) - Unwrap(doc.ankabot)
                  = IF RegExpTest(doc.IGNORE, doc.xhr.url) THEN 0 ELSE 1]_vars

\* C12 witness: the script has run twice, and the one counted request in
\* flight is counted once
C12_Witness ==
    /\ doc.installs = 2
    /\ Len(doc.fetches) = 1
    /\ ~RegExpTest(doc.IGNORE, doc.fetches[1].url)
    /\ doc.xhr.listeners = 0
    /\ doc.ankabot = Some(1)

\* C13 (as stated): a fetch call is left out of the count exactly when the
\* caller gave a pattern and the pattern matches the URL; with no pattern
\* given every call is counted.
C13_Exclusion_AsStated ==
    [][Len(doc'.fetches) > Len(doc.fetches)
       => LET url == doc'.fetches[Len(doc'.fetches)].url
              idle_ignore == Unwrap(args["idle_ignore"])
              excluded == Unwrap(doc'.ankabot) = Unwrap(doc.ankabot)
          IN  excluded <=> (idle_ignore # None /\ RegExpTest(Unwrap(idle_ignore), url))]_vars

\* C14 (as stated): in an instrumented document the counter equals the
\* number of requests in flight whose URL the pattern does not match.
C14_PendingCount_AsStated ==
    doc.ankabot # None
    => Unwrap(doc.ankabot)
         = Cardinality({i \in 1..Len(doc.fetches) :
                          ~RegExpTest(doc.IGNORE, doc.fetches[i].url)})
           + (IF doc.xhr.state = "sent" /\ ~RegExpTest(doc.IGNORE, doc.xhr.url)
              THEN 1 ELSE 0)

C16_ChallengeSignal ==
    [][LET Phrases == {"checking your browser", "verifying you are human",
                       "press and hold"}
           Result(o) == o.kind = "ProbeResult"
           Flagged(text) == text # None /\ AsciiLower(Unwrap(text)) \in Phrases
       IN  /\ \A i \in 1..Len(out') :
                Result(out'[i]) => /\ out'[i].waf_detected = out'[i].js_challenge_page
                                   /\ out'[i].anti_bot_vendor = None
           /\ (pc = "r_pdfwait" /\ pc' = "m_ret" /\ Unwrap(chrome_res').ok
                   /\ Flagged(eng.body_text))
                => LET o == RenderOutput(Unwrap(chrome_res').val)
                   IN  o.js_challenge_page /\ o.waf_detected
           /\ (pc = "m_ret" /\ pc' = "done" /\ Unwrap(chrome_res).ok
                   /\ Unwrap(chrome_res).val.kind = "Success")
                => (out' = out
                    \/ out'[Len(out')] = RenderOutput(Unwrap(chrome_res).val))]_vars

\* C16 witness: a render that read "Verifying You Are Human" wrote a
\* ProbeResult with both flags set
C16_Witness ==
    /\ pc = "done"
    /\ Len(out) = 1
    /\ out[1].kind = "ProbeResult"
    /\ out[1].requires_javascript
    /\ out[1].js_challenge_page
    /\ out[1].waf_detected
    /\ out[1].anti_bot_vendor = None

\* C17 (as stated): the http_status of a ProbeResult is 0 on the browser
\* path, for a successful render as for a timeout disposed of with
\* `continue`, and the status the server answered only on the plain-HTTP
\* short-circuit path.
C17_HttpStatus_AsStated ==
    \A i \in 1..Len(out) :
        out[i].kind = "ProbeResult"
        => IF out[i].requires_javascript
           THEN out[i].http_status = 0
           ELSE /\ http_res # None
                /\ Unwrap(http_res).ok
                /\ out[i].http_status = Unwrap(http_res).val.status

\* C18 (as stated): an invocation whose options, as far as it read them,
\* are the defaults and that ends normally has written one result record
\* with a pdf_path that is not null and has written that PDF, on the
\* short-circuit path as on the render path.
C18_PdfAlways_AsStated ==
    LET Defaults == [force_chrome |-> FALSE, headful |-> FALSE,
                     headful_fallback |-> FALSE, on_timeout |-> "report",
                     wait_ready |-> "complete", wait_selector |-> None,
                     export_cookies |-> None, idle_ignore |-> None]
    IN  (pc = "done" /\ exit = Some(Exit(0)) /\ Agrees(args, Defaults))
        => /\ Len(out) = 1
           /\ out[1].pdf_path # None
           /\ "pdf" \in files

\* C19: the configuration of the headful retry is the first attempt's with
\* headful set: every other option the retry reads (readiness settings,
\* deadline budget, cookies, timeout disposition, ...) has the value it has
\* in the original, the original stays headless, and no option of either
\* value changes once it was read.
C19_RetryConfig ==
    [][/\ retry' # None
          => LET copy == Unwrap(retry')
             IN  /\ copy.headful = Some(TRUE)
                 /\ args'.headful = Some(FALSE)
                 /\ \A f \in Flags \ {"headful"} :
                      copy[f] = None \/ copy[f] = args'[f]
       /\ \A f \in Flags : args[f] # None => args'[f] = args[f]
       /\ retry # None
          => /\ retry' # None
             /\ \A f \in Flags :
                  Unwrap(retry)[f] # None => Unwrap(retry')[f] = Unwrap(retry)[f]]_vars

\* C19 witness: the retry ran a whole session, reading its deadline budget,
\* readiness setting and cookie export, and main then read the disposition
C19_Witness ==
    /\ pc = "done"
    /\ retry # None
    /\ Len(calls) = 2
    /\ Unwrap(retry).max_wait_ms # None
    /\ Unwrap(retry).wait_ready # None
    /\ Unwrap(retry).export_cookies # None
    /\ args.on_timeout # None

\* C20: in a pass of the polling loop the ready-state test comes first, the
\* network-idle test second and the heuristic test last, and the pass ends
\* at the first test that is satisfied, with that branch: when the
\* ready-state reading satisfies --wait-ready the pass returns ready_state
\* and nothing else, whatever the other readings would have been; when it
\* does not and the network has been idle long enough the pass returns
\* network_idle and nothing else, whatever the text readings would have
\* been; the heuristic branch is entered only after both, and is recorded as
\* heuristic once the settle wait is over.
C20_PriorityOrder ==
    /\ pc = "r_poll"
       => LET c == EngArgs
              dl == Unwrap(deadline)
              Times == {now + k * EvalPolls * PollMs : k \in 0..3}
              Since(s, t) == IF s = None THEN t ELSE Unwrap(s)
              IdleOk(pending, cnt, t) ==
                  /\ pending <= c.idle_threshold
                  /\ cnt = eng.last_cnt
                  /\ t - Since(eng.idle_since, t) >= c.network_idle_ms
              HeurOk(text_len, has_main, t) ==
                  /\ text_len >= c.heuristic_min_chars
                  /\ has_main
                  /\ t - Since(eng.heur_since, t) >= HeurWindowMs
              Branches(os) ==
                  {o.eng.result : o \in {x \in os : x.kind = "return"}}
          IN  \A t \in Times :
                /\ \A rs \in ReadyStates :
                     IF ReadyOk(c.wait_ready, rs)
                     THEN ReadyStateAt(eng, c, dl, t, rs)
                            = {Returned(Ok("ready_state"), t)}
                     ELSE /\ Some(Ok("ready_state"))
                               \notin Branches(ReadyStateAt(eng, c, dl, t, rs))
                          /\ ReadyStateAt(eng, c, dl, t, rs)
                               = UNION {NetworkIdleStep(eng, c, dl, t + d) : d \in Latencies}
                /\ \A pending \in 0..MaxPending, cnt \in 0..MaxCnt :
                     IF IdleOk(pending, cnt, t)
                     THEN NetworkIdleAt(eng, c, dl, t, pending, cnt)
                            = {Returned(Ok("network_idle"), t)}
                     ELSE \A o \in NetworkIdleAt(eng, c, dl, t, pending, cnt) :
                            /\ o.kind = "return" => ~Unwrap(o.eng.result).ok
                            /\ o.kind # "return" => o.eng.last_cnt = cnt
                /\ \A text_len \in TextLens, has_main \in BOOLEAN :
                     HeuristicAt(eng, c, dl, t, text_len, has_main).kind
                       = IF HeurOk(text_len, has_main, t) THEN "settle" ELSE "sleep"
    /\ (pc = "r_ready_ret" /\ eng.result = Some(Ok("heuristic")))
       => eng.settle_deadline = None

\* C20 witness: a pass is about to start in which, the readings allowing,
\* all three tests would be satisfied
C20_Witness ==
    /\ pc = "r_poll"
    /\ now < Unwrap(deadline)
    /\ eng.idle_since # None
    /\ now - Unwrap(eng.idle_since) >= EngArgs.network_idle_ms
    /\ eng.heur_since # None
    /\ now - Unwrap(eng.heur_since) >= HeurWindowMs
    /\ EngArgs.wait_ready = "complete"

\* C21: the engine returns network_idle only at the end of an unbroken run
\* of passes, begun at idle_since and at least network_idle_ms long, each of
\* which read a pending count of at most idle_threshold and the resource
\* count of the pass before it.  A pass that reads a higher pending count or
\* another resource count empties idle_since, whatever it held; idle_since
\* is only ever emptied, kept, or set to the time of the current pass; and
\* the first pass, which has no pass before it, never sets it.
C21_NetworkIdle ==
    [][pc = "r_poll"
       => LET c == EngArgs
              Times == {now + k * EvalPolls * PollMs : k \in 0..3}
          IN  /\ \A t \in Times, pending \in 0..MaxPending, cnt \in 0..MaxCnt :
                   LET i == IdleSince(eng, pending, cnt, c.idle_threshold, t)
                   IN  /\ (pending > c.idle_threshold \/ cnt # eng.last_cnt)
                             <=> i = None
                       /\ i # None => i \in {eng.idle_since, Some(t)}
                       /\ (i # None /\ eng.idle_since # None) => i = eng.idle_since
              /\ eng = EngInit
                 => \A t \in Times, pending \in 0..MaxPending, cnt \in 0..MaxCnt :
                      IdleSince(eng, pending, cnt, c.idle_threshold, t) = None
              /\ (pc' = "r_poll" /\ eng'.idle_since # None)
                 => /\ eng'.last_cnt = eng.last_cnt
                    /\ \/ eng'.idle_since = eng.idle_since
                       \/ /\ eng.idle_since = None
                          /\ Unwrap(eng'.idle_since) \in now..now'
              /\ (pc' = "r_ready_ret" /\ eng'.result = Some(Ok("network_idle")))
                 => /\ eng.last_cnt >= 0
                    /\ LET since == IF eng.idle_since = None THEN now'
                                    ELSE Unwrap(eng.idle_since)
                       IN  now' - since >= c.network_idle_ms]_vars

\* C21 witness: network_idle was returned by a pass that began an idle
\* period or more after the first one
C21_Witness ==
    /\ pc = "r_ready_ret"
    /\ eng.result = Some(Ok("network_idle"))
    /\ now >= Flag("network_idle_ms") + PollMs

\* C22 (as stated): the engine enters the heuristic branch only when the
\* text and container condition has held since heur_since, at least 600 ms
\* before; the image and font wait that follows has a deadline 800 ms after
\* it began, or the overall deadline if that is nearer, and no pass of it
\* that starts before that deadline ends after it; the engine then returns
\* heuristic, whether that wait cleared, timed out or failed.
C22_Heuristic_AsStated ==
    [][/\ (pc = "r_poll" /\ pc' = "r_settle")
          => /\ eng.heur_since # None
             /\ now' - Unwrap(eng.heur_since) >= HeurWindowMs
             /\ eng'.settle_deadline = Some(Min(Unwrap(deadline), now' + SettleMs))
       /\ (pc = "r_settle" /\ pc' # "r_settle")
          => /\ pc' = "r_ready_ret"
             /\ eng'.result = Some(Ok("heuristic"))
       /\ (pc = "r_settle" /\ now < Unwrap(eng.settle_deadline))
          => now' <= Unwrap(eng.settle_deadline)]_vars

\* C23 (as stated): with --wait-selector given, the captures of the success
\* path begin only after wait_until_ready returned Ok, for wait_ready none
\* as for the others, and a pass of wait_for_selector begun before the
\* deadline found the selector; and when the selector is not found before
\* the deadline, render_with_chrome returns a timeout outcome.
C23_Selector_AsStated ==
    [][/\ (pc = "r_ready_ret" /\ Unwrap(eng.result).ok
               /\ Borrowed'.wait_selector \notin {None, Some(None)})
          => pc' = "r_selector"
       /\ (pc = "r_selector" /\ pc' # "r_selector")
          => IF now < Unwrap(deadline)
             THEN pc' = "r_capture"
             ELSE pc' = "r_fail" /\ res' = Some(Err(MsgSelectorTimeout))
       /\ (pc = "r_fail" /\ res = Some(Err(MsgSelectorTimeout)))
          => /\ chrome_res' # None
             /\ Unwrap(chrome_res').ok
             /\ Unwrap(chrome_res').val.kind = "TimeoutReport"]_vars

\* C24 (as stated): the wait_branch of a timeout outcome is one of
\* network_idle, ready_state and heuristic, and the outcome built for the
\* timeout of wait_until_ready, at which the ready-state condition is still
\* pending, does not name heuristic.
C24_TimeoutBranch_AsStated ==
    [][(pc = "r_fail" /\ chrome_res' # None /\ Unwrap(chrome_res').ok)
       => LET report == Unwrap(chrome_res').val
          IN  /\ report.kind = "TimeoutReport"
              /\ report.wait_branch \in {"network_idle", "ready_state", "heuristic"}
              /\ Unwrap(res).msg = MsgReadyTimeout
                 => report.wait_branch # "heuristic"]_vars

\* C25 (as stated): an invocation computes one deadline, start plus
\* max_wait_ms, in its first render_with_chrome call, and the headful retry
\* computes no other; and no step of navigation, the readiness wait, the
\* selector wait or the image/font waits that begins before the deadline
\* ends after it.
C25_SingleDeadline_AsStated ==
    [][/\ (deadline = None /\ deadline' # None)
          => /\ Len(calls) = 1
             /\ deadline' = Some(now + Flag("max_wait_ms")')
       /\ (/\ pc \in {"r_nav", "r_poll", "r_settle", "r_selector", "r_pdfwait"}
           /\ now < Unwrap(deadline))
          => now' <= Unwrap(deadline)]_vars

\* C26: after a render_with_chrome call that returned a timeout outcome (or
\* any Ok) main makes no second call, whatever --headful-fallback says: it
\* goes on to dispose of the outcome.  A second call is made only after an
\* Err of a headless first call with --headful-fallback set, and
\* render_with_chrome returns Err only for an error met before the closure
\* ran (launch, configuration), for a closure error that is not
\* timeout-like, returned as it is, or, after a timeout-like closure error,
\* for the failure of a diagnostic probe or of the debug directory.
C26_NoRetryOnTimeout ==
    [][LET TimeoutLike(msg) ==
               \/ MsgContains(msg, <<"timeout">>)
               \/ MsgContains(msg, <<"EventNeverCame">>)
       IN  /\ (pc = "m_ret" /\ Unwrap(chrome_res).ok)
              => /\ pc' = "done"
                 /\ calls' = calls
                 /\ retry' = retry
                 /\ launched' = launched
           /\ (pc = "m_ret" /\ pc' = "r_launch")
              => /\ ~Unwrap(chrome_res).ok
                 /\ Len(calls) = 1
                 /\ calls[1] = FALSE
                 /\ args'.headful_fallback = Some(TRUE)
           /\ (chrome_res = None /\ chrome_res' # None)
              => IF Unwrap(chrome_res').ok
                 THEN /\ pc \in {"r_pdfwait", "r_fail"}
                      /\ pc = "r_fail"
                         <=> Unwrap(chrome_res').val.kind = "TimeoutReport"
                      /\ pc = "r_fail" => TimeoutLike(Unwrap(res).msg)
                 ELSE \/ pc \in {"r_launch", "r_config"}
                      \/ /\ pc = "r_fail"
                         /\ IF TimeoutLike(Unwrap(res).msg)
                            THEN Unwrap(chrome_res').msg \in LibErrors \cup {MsgIo}
                            ELSE Unwrap(chrome_res').msg = Unwrap(res).msg]_vars

\* C26 witness: a headless session ended in a timeout outcome, main disposed
\* of it without a second call and without looking at --headful-fallback
C26_Witness ==
    /\ pc = "done"
    /\ chrome_res # None
    /\ Unwrap(chrome_res).ok
    /\ Unwrap(chrome_res).val.kind = "TimeoutReport"
    /\ calls = <<FALSE>>
    /\ retry = None
    /\ args.headful_fallback = None

\* C27 (as stated): when fetch_http returned a response, of whatever status,
\* whose body passed the checks (not looks_empty, at least one link), main
\* writes a ProbeResult with that status and requires_javascript = false
\* and ends, and render_with_chrome is not called.
C27_StatusIgnored_AsStated ==
    [][(/\ pc = "fetched"
        /\ Unwrap(http_res).ok
        /\ ~Unwrap(http_res).val.looks_empty
        /\ Unwrap(http_res).val.links_found >= 1)
       => (/\ pc' = "done"
           /\ calls' = <<>>
           /\ Len(out') = 1
           /\ out'[1].kind = "ProbeResult"
           /\ out'[1].http_status = Unwrap(http_res).val.status
           /\ out'[1].requires_javascript = FALSE)]_vars

\* C27 (amended): the same, except that the record may fail to be written,
\* and then the invocation ends in a hard failure with no record, still
\* without a render_with_chrome call; and whether main short-circuits is
\* the same for every status the response could have had.
C27_StatusIgnored ==
    [][(pc = "fetched" /\ Unwrap(http_res).ok)
       => LET r == Unwrap(http_res).val
              passes == ~r.looks_empty /\ r.links_found >= 1
          IN  /\ \A s \in Statuses : NeedsJs([r EXCEPT !.status = s]) = ~passes
              /\ passes
                 => /\ pc' = "done"
                    /\ calls' = <<>>
                    /\ launched' = 0
                    /\ \/ /\ Len(out') = 1
                          /\ out'[1].kind = "ProbeResult"
                          /\ out'[1].http_status = r.status
                          /\ out'[1].requires_javascript = FALSE
                          /\ exit' = Some(Exit(0))
                       \/ /\ out' = <<>>
                          /\ exit' = Some(Fatal(MsgIo))
              /\ ~passes => pc' = "r_launch"]_vars

\* C27 witness: a 404 answer was short-circuited into a record
C27_Witness ==
    /\ pc = "done"
    /\ launched = 0
    /\ Len(out) = 1
    /\ out[1].http_status = 404
    /\ out[1].requires_javascript = FALSE
    /\ Unwrap(http_res).val.status = 404

\* C28 (as stated): the html, screenshot and pdf paths of a timeout outcome,
\* in the TimeoutReport and in the ProbeResult written for it under
\* `continue`, each name a file the failure handler captured and wrote, and
\* the pdf path is absent when no PDF was written.
C28_ArtifactsExist_AsStated ==
    (chrome_res # None /\ Unwrap(chrome_res).ok
       /\ Unwrap(chrome_res).val.kind = "TimeoutReport")
    => LET a == Unwrap(chrome_res).val.artifacts
       IN  /\ a.html \in files
           /\ a.screenshot \in files
           /\ a.pdf # None <=> "dbg_pdf" \in files
           /\ a.pdf # None => Unwrap(a.pdf) \in files
           /\ \A i \in 1..Len(out) :
                out[i].kind = "ProbeResult"
                => /\ out[i].html_path = a.html
                   /\ out[i].screenshot_path = Some(a.screenshot)
                   /\ out[i].pdf_path = a.pdf
====
